---- MODULE Spec2Model ----
(***************************************************************************)
(* nevergrad/functions/corefuncs.py: the registry of benchmark functions,  *)
(* the functions themselves and the delay report of DelayedSphere.         *)
(*                                                                         *)
(* Numbers.  A binary64 value is a record [k, n, d]:                       *)
(*   k = "rat"   the exact finite value n/d (d > 0, lowest terms);         *)
(*   k = "pos"   some finite value > 0 that the model does not compute     *)
(*   k = "neg"   some finite value < 0                                     *)
(*   k = "fin"   some finite value of unknown sign (0 possible)            *)
(*   k = "pinf", "ninf", "nan"   the IEEE specials                         *)
(*   k = "any"   any binary64 value, NaN included                          *)
(* Polynomial code is evaluated exactly; a transcendental call is exact    *)
(* where binary64 is (cos 0, tanh 0, arctan 0, sqrt of a square, the       *)
(* saturation of tanh) and is otherwise its sign class.  Rounding and      *)
(* overflow of finite arithmetic are not modelled: the inputs are of       *)
(* moderate size.  The zero of the inputs is +0.0.                         *)
(* An outcome of a call is such a value or [k |-> <exception name>].       *)
(***************************************************************************)
EXTENDS Integers, Sequences, FiniteSets, TLC

VARIABLES registry, pc, call, errSeen

vars == <<registry, pc, call, errSeen>>

\* ------------------------------------------------------------------ bounds
MaxBits == 8     \* longest 0/1-coded vector handed to the discrete functions
MaxCat == 3      \* longest vector over the 5 categories 0..4
MaxDim == 2      \* longest real vector handed to a registered function

\* ------------------------------------------------------- integer-coded part
Range(s) == {s[i] : i \in 1..Len(s)}

\* the vectors over alphabet A of length 0..n
Vectors(A, n) == UNION {[1..m -> A] : m \in 0..n}

\* The vectors are integer-coded, so int(round(w)) is w itself.

\* a slip that takes every category >= 1 for a match
OnemaxAnyCategory(x) == Len(x) - Cardinality({i \in 1..Len(x) : x[i] >= 1})

\* len(x) - sum(1 if int(round(w)) == 1 else 0 for w in x)
_onemax(x) == Len(x) - Cardinality({i \in 1..Len(x) : x[i] = 1})

\* the loop of _leadingones from position i (1-based) on
RECURSIVE LeadingScan(_, _)
LeadingScan(x, i) ==
    IF i > Len(x) THEN 0
    ELSE IF x[i] # 1 THEN Len(x) - (i - 1)
    ELSE LeadingScan(x, i + 1)

\* a slip that counts every 1, leading or not
LeadingonesAllOnes(x) == Len(x) - Cardinality({i \in 1..Len(x) : x[i] = 1})

_leadingones(x) == LeadingScan(x, 1)

\* a slip that leaves out the test o == n
JumpNoOptimum(x) ==
    LET n == Len(x)
        m == n \div 4
        o == n - _onemax(x)
    IN  IF o <= n - m THEN n - m - o ELSE o

_jump(x) ==
    LET n == Len(x)
        m == n \div 4
        o == n - _onemax(x)
    IN  IF o = n \/ o <= n - m THEN n - m - o ELSE o

\* ----------------------------------------------------------------- registry
\* The module body: one registration statement per registered object, in order.
Plain(name) == [name |-> name, mode |-> "register", kw |-> {}]
WithInfo(name) == [name |-> name, mode |-> "register_with_info", kw |-> {"no_transfrom"}]

\* a slip that registers hardjump with the plain call
RegistrationsPlainHardjump ==
    << Plain("DelayedSphere"), Plain("sphere"), Plain("sphere1"), Plain("sphere2"),
       Plain("sphere4"), Plain("maxdeceptive"), Plain("sumdeceptive"), Plain("altcigar"),
       Plain("cigar"), Plain("altellipsoid"), Plain("ellipsoid"), Plain("rastrigin"),
       Plain("hm"), Plain("rosenbrock"), Plain("griewank"), Plain("deceptiveillcond"),
       Plain("deceptivepath"), Plain("deceptivemultimodal"), Plain("lunacek"),
       WithInfo("hardonemax"), Plain("hardjump"), WithInfo("hardleadingones"),
       WithInfo("hardonemax5"), WithInfo("hardjump5"), WithInfo("hardleadingones5"),
       WithInfo("onemax"), WithInfo("jump"), WithInfo("leadingones"),
       WithInfo("onemax5"), WithInfo("jump5"), WithInfo("leadingones5"),
       WithInfo("genzcornerpeak"), WithInfo("minusgenzcornerpeak"),
       Plain("genzgaussianpeakintegral"), Plain("minusgenzgaussianpeakintegral"),
       Plain("slope"), Plain("linear"), Plain("st0"), Plain("st1"), Plain("st10"),
       Plain("st100") >>
Registrations ==
    << Plain("DelayedSphere"), Plain("sphere"), Plain("sphere1"), Plain("sphere2"),
       Plain("sphere4"), Plain("maxdeceptive"), Plain("sumdeceptive"), Plain("altcigar"),
       Plain("cigar"), Plain("altellipsoid"), Plain("ellipsoid"), Plain("rastrigin"),
       Plain("hm"), Plain("rosenbrock"), Plain("griewank"), Plain("deceptiveillcond"),
       Plain("deceptivepath"), Plain("deceptivemultimodal"), Plain("lunacek"),
       WithInfo("hardonemax"), WithInfo("hardjump"), WithInfo("hardleadingones"),
       WithInfo("hardonemax5"), WithInfo("hardjump5"), WithInfo("hardleadingones5"),
       WithInfo("onemax"), WithInfo("jump"), WithInfo("leadingones"),
       WithInfo("onemax5"), WithInfo("jump5"), WithInfo("leadingones5"),
       WithInfo("genzcornerpeak"), WithInfo("minusgenzcornerpeak"),
       Plain("genzgaussianpeakintegral"), Plain("minusgenzgaussianpeakintegral"),
       Plain("slope"), Plain("linear"), Plain("st0"), Plain("st1"), Plain("st10"),
       Plain("st100") >>

NReg == Len(Registrations)

Names(reg) == {reg[i].name : i \in 1..Len(reg)}

\* Registry.register / Registry.register_with_info(**info) of a free name: the
\* entry keeps the name and the keywords given as True
RegistryAdd(reg, st) == Append(reg, [name |-> st.name, info |-> st.kw])

\* the keyword under which the registrations record the flag
NoTransformKey == "no_transfrom"

Entry(reg, name) == CHOOSE e \in Range(reg) : e.name = name

\* lookup(name) -> (callable, no_transform); the callable is named by `name`
lookup(reg, name) ==
    [callable |-> name, no_transform |-> NoTransformKey \in Entry(reg, name).info]

\* ------------------------------------------------------------------ numbers
R(n, d) == [k |-> "rat", n |-> n, d |-> d]
K(kind) == [k |-> kind, n |-> 0, d |-> 1]

NaN == K("nan")
PInf == K("pinf")
NInf == K("ninf")
Zero == R(0, 1)
One == R(1, 1)

AbsInt(i) == IF i < 0 THEN -i ELSE i

RECURSIVE GCD(_, _)
GCD(a, b) == IF b = 0 THEN a ELSE GCD(b, a % b)

\* the rational n/d (d # 0) in lowest terms with a positive denominator
Q(n, d) ==
    LET g == GCD(AbsInt(n), AbsInt(d))
    IN  IF d < 0 THEN R((-n) \div g, (-d) \div g) ELSE R(n \div g, d \div g)

\* exact sum and product, reduced before multiplying
RatAdd(a, b) ==
    LET g == GCD(a.d, b.d)
    IN  Q(a.n * (b.d \div g) + b.n * (a.d \div g), (a.d \div g) * b.d)

RatMul(a, b) ==
    LET g1 == GCD(AbsInt(a.n), b.d)
        g2 == GCD(AbsInt(b.n), a.d)
    IN  IF a.n = 0 \/ b.n = 0 THEN R(0, 1)
        ELSE R((a.n \div g1) * (b.n \div g2), (a.d \div g2) * (b.d \div g1))

IsRat(v) == v.k = "rat"
IsFinite(v) == v.k \in {"rat", "pos", "neg", "fin"}
IsInf(v) == v.k \in {"pinf", "ninf"}

\* sign of a value that is not NaN: "z", "p", "n", or "u" (unknown)
Sign(v) ==
    CASE v.k = "rat" -> (IF v.n = 0 THEN "z" ELSE IF v.n > 0 THEN "p" ELSE "n")
      [] v.k \in {"pos", "pinf"} -> "p"
      [] v.k \in {"neg", "ninf"} -> "n"
      [] OTHER -> "u"

MulSign(s, t) ==
    IF s = "z" \/ t = "z" THEN "z"
    ELSE IF s = "u" \/ t = "u" THEN "u"
    ELSE IF s = t THEN "p" ELSE "n"

\* a finite value known by its sign alone
Finite(s) ==
    CASE s = "z" -> Zero [] s = "p" -> K("pos") [] s = "n" -> K("neg") [] OTHER -> K("fin")

\* an infinity known by its sign; an unknown sign leaves +inf, -inf or NaN open
Infinite(s) ==
    CASE s = "p" -> PInf [] s = "n" -> NInf [] s = "z" -> NaN [] OTHER -> K("any")

Neg(v) ==
    CASE v.k = "rat" -> R(-v.n, v.d)
      [] v.k = "pos" -> K("neg")
      [] v.k = "neg" -> K("pos")
      [] v.k = "pinf" -> NInf
      [] v.k = "ninf" -> PInf
      [] OTHER -> v

Abs(v) ==
    CASE v.k = "rat" -> R(AbsInt(v.n), v.d)
      [] v.k = "neg" -> K("pos")
      [] v.k = "ninf" -> PInf
      [] OTHER -> v

Add(a, b) ==
    IF a.k = "nan" \/ b.k = "nan" THEN NaN
    ELSE IF a.k = "any" \/ b.k = "any" THEN K("any")
    ELSE IF IsInf(a) THEN (IF IsInf(b) /\ b.k # a.k THEN NaN ELSE a)
    ELSE IF IsInf(b) THEN b
    ELSE IF IsRat(a) /\ IsRat(b) THEN RatAdd(a, b)
    ELSE IF Sign(a) = "z" THEN b
    ELSE IF Sign(b) = "z" THEN a
    ELSE IF Sign(a) = Sign(b) THEN Finite(Sign(a))
    ELSE K("fin")

Sub(a, b) == Add(a, Neg(b))

Mul(a, b) ==
    IF a.k = "nan" \/ b.k = "nan" THEN NaN
    ELSE IF a.k = "any" \/ b.k = "any" THEN K("any")
    ELSE IF IsInf(a) \/ IsInf(b) THEN Infinite(MulSign(Sign(a), Sign(b)))
    ELSE IF IsRat(a) /\ IsRat(b) THEN RatMul(a, b)
    ELSE Finite(MulSign(Sign(a), Sign(b)))

\* numpy true division: a zero divisor gives an infinity or NaN, never an exception
Div(a, b) ==
    IF a.k = "nan" \/ b.k = "nan" THEN NaN
    ELSE IF a.k = "any" \/ b.k = "any" THEN K("any")
    ELSE IF IsInf(b) THEN (IF IsInf(a) THEN NaN ELSE Zero)
    ELSE IF Sign(b) = "u" THEN K("any")
    ELSE IF Sign(b) = "z" THEN Infinite(Sign(a))
    ELSE IF IsInf(a) THEN Infinite(MulSign(Sign(a), Sign(b)))
    ELSE IF IsRat(a) /\ IsRat(b) THEN RatMul(a, Q(b.d, b.n))
    ELSE Finite(MulSign(Sign(a), Sign(b)))

Sq(v) == Mul(v, v)

\* a < b on exact values
Less(a, b) == a.n * b.d < b.n * a.d

\* Python max(a, b) on values that are not NaN
Max2(a, b) ==
    IF IsRat(a) /\ IsRat(b) THEN (IF Less(a, b) THEN b ELSE a)
    ELSE IF a.k = "pinf" \/ b.k = "pinf" THEN PInf
    ELSE IF Sign(a) = "p" \/ Sign(b) = "p" THEN K("pos")
    ELSE K("fin")

RECURSIVE IntPow(_, _)
IntPow(b, e) == IF e = 0 THEN 1 ELSE b * IntPow(b, e - 1)

IsSquare(i) == \E r \in 0..i : r * r = i
ISqrt(i) == CHOOSE r \in 0..i : r * r = i

\* np.sqrt
Sqrt(v) ==
    CASE v.k = "rat" ->
           (IF v.n < 0 THEN NaN
            ELSE IF IsSquare(v.n) /\ IsSquare(v.d) THEN R(ISqrt(v.n), ISqrt(v.d))
            ELSE K("pos"))
      [] v.k \in {"neg", "ninf"} -> NaN
      [] v.k = "fin" -> K("any")
      [] OTHER -> v

\* np.cos: 1 at 0, a value of [-1, 1] at a finite argument, NaN at an infinity
Cos(v) ==
    IF v.k \in {"nan", "any"} THEN v
    ELSE IF IsInf(v) THEN NaN
    ELSE IF Sign(v) = "z" THEN One
    ELSE K("fin")

\* np.arctan: odd, 0 at 0, +-pi/2 at the infinities
Arctan(v) ==
    IF v.k \in {"nan", "any"} THEN v
    ELSE Finite(Sign(v))

\* binary64 tanh is exactly +-1.0 from this magnitude on
TanhSat == 20

\* tanh: odd, 0 at 0, exactly +-1 from TanhSat on, inside (-1, 1) at the other
\* coordinates the model uses
Tanh(v) ==
    IF v.k \in {"nan", "any"} THEN v
    ELSE IF IsInf(v) THEN R(IF v.k = "pinf" THEN 1 ELSE -1, 1)
    ELSE IF IsRat(v) /\ AbsInt(v.n) >= TanhSat * v.d THEN R(IF v.n > 0 THEN 1 ELSE -1, 1)
    ELSE Finite(Sign(v))

\* math.exp of a value that is not +inf: 1 at 0, positive otherwise
Exp(v) ==
    IF v.k \in {"nan", "any"} THEN v
    ELSE IF v.k = "ninf" THEN Zero
    ELSE IF Sign(v) = "z" THEN One
    ELSE K("pos")

\* ------------------------------------------------------------------ vectors
RECURSIVE SumV(_)
SumV(s) == IF s = <<>> THEN Zero ELSE Add(SumV(SubSeq(s, 1, Len(s) - 1)), s[Len(s)])

RECURSIVE ProdV(_)
ProdV(s) == IF s = <<>> THEN One ELSE Mul(ProdV(SubSeq(s, 1, Len(s) - 1)), s[Len(s)])

Squares(x) == [i \in 1..Len(x) |-> Sq(x[i])]       \* x ** 2
Shift(x, c) == [i \in 1..Len(x) |-> Sub(x[i], c)]
Reverse(x) == [i \in 1..Len(x) |-> x[Len(x) + 1 - i]]
Tail1(x) == SubSeq(x, 2, Len(x))                \* x[1:]
Front(x) == SubSeq(x, 1, Len(x) - 1)            \* x[:-1]

\* a.dot(b)
Dot(a, b) == SumV([i \in 1..Len(a) |-> Mul(a[i], b[i])])

\* the failure of `assert len(x) >= 2`
InvalidDimension == "InvalidDimension"

Raise(e) == [k |-> e, n |-> 0, d |-> 1]
IsError(o) == o.k \in {"InvalidDimension", "IndexError"}

\* ---------------------------------------------------- discretization transforms
\* threshold_discretization(y, 2): 1 where the coordinate is > 0, else 0
Threshold2(y) == [i \in 1..Len(y) |-> IF Sign(y[i]) = "p" THEN 1 ELSE 0]

\* the quantiles 1/5 .. 4/5 of the standard normal distribution, in 1/10000
Quantiles5 == <<-8416, -2533, 2533, 8416>>

\* threshold_discretization(y, 5): index of the equal-probability bucket
Threshold5(y) ==
    [i \in 1..Len(y) |->
        Cardinality({j \in 1..4 : ~Less(y[i], R(Quantiles5[j], 10000))})]

\* first index (0-based) of the largest of the arity logits of block b (0-based)
ArgMax(y, b, arity) ==
    (CHOOSE j \in 1..arity :
        /\ \A l \in 1..arity : ~Less(y[b * arity + j], y[b * arity + l])
        /\ \A l \in 1..(j - 1) : Less(y[b * arity + l], y[b * arity + j])) - 1

\* softmax_discretization(y, arity): one category per block of arity logits
Softmax(y, arity) == [b \in 1..(Len(y) \div arity) |-> ArgMax(y, b - 1, arity)]

Whole(i) == R(i, 1)

\* softmax_discretization rejects a length that arity does not divide
Ragged(y, arity) == Len(y) % arity # 0

\* ------------------------------------------------------ the benchmark functions
\* DelayedSphere.__call__
DelayedSphere(x) == SumV(Squares(x))

\* DelayedSphere.get_postponing_delay(args, kwargs, value), x = args[0]
\* a slip that leaves out the test x[0] != 0.0
DelayNoGuard(args, kwargs, value) ==
    LET x == args[1]
    IN  Div(Abs(Div(One, x[1])), R(1000, 1))
get_postponing_delay(args, kwargs, value) ==
    LET x == args[1]
    IN  IF x[1] # Zero THEN Div(Abs(Div(One, x[1])), R(1000, 1)) ELSE Zero

sphere(x) == Dot(x, x)
sphere1(x) == sphere(Shift(x, R(1, 1)))
sphere2(x) == sphere(Shift(x, R(2, 1)))
sphere4(x) == sphere(Shift(x, R(4, 1)))

\* 3 ** e: exact at e = 0, a value >= 1 elsewhere
Pow3(e) == IF Sign(e) = "z" THEN One ELSE K("pos")

\* the shared term 3 * x ** 2 - (2 / (3 ** (x - 2) ** 2 + 0.1))
Deceptive(v) ==
    Sub(Mul(R(3, 1), Sq(v)),
        Div(R(2, 1), Add(Pow3(Sq(Sub(v, R(2, 1)))), R(1, 10))))

RECURSIVE MaxV(_)
MaxV(s) == IF Len(s) = 1 THEN s[1] ELSE Max2(MaxV(Front(s)), s[Len(s)])

maxdeceptive(x) == MaxV([i \in 1..Len(x) |-> Deceptive(x[i])])
sumdeceptive(x) == SumV([i \in 1..Len(x) |-> Deceptive(x[i])])

CigarWeight == 1000000

altcigar(x) == Add(Sq(x[Len(x)]), Mul(R(CigarWeight, 1), sphere(Front(x))))

\* a slip that weights the first axis instead of the others
CigarSwapped(x) == Add(Mul(R(CigarWeight, 1), Sq(x[1])), sphere(Tail1(x)))
cigar(x) == Add(Sq(x[1]), Mul(R(CigarWeight, 1), sphere(Tail1(x))))

\* 10 ** np.linspace(0, 6, dim)[i], i 0-based
Weight(i, dim) ==
    IF dim = 1 THEN One
    ELSE IF (6 * i) % (dim - 1) = 0 THEN R(IntPow(10, (6 * i) \div (dim - 1)), 1)
    ELSE K("pos")

ellipsoid(x) == Dot([i \in 1..Len(x) |-> Weight(i - 1, Len(x))], Squares(x))
altellipsoid(y) == ellipsoid(Reverse(y))

\* np.pi
Pi == K("pos")

rastrigin(x) ==
    LET cosi == SumV([i \in 1..Len(x) |-> Cos(Mul(Mul(R(2, 1), Pi), x[i]))])
    IN  Add(Mul(R(10, 1), Sub(Whole(Len(x)), cosi)), sphere(x))

hm(x) ==
    Dot(Squares(x), [i \in 1..Len(x) |-> Add(R(11, 10), Cos(Div(One, x[i])))])

rosenbrock(x) ==
    LET x_m_1 == Shift(Front(x), One)
        x_diff == [i \in 1..(Len(x) - 1) |-> Sub(Sq(x[i]), x[i + 1])]
    IN  Add(Mul(R(100, 1), Dot(x_diff, x_diff)), Dot(x_m_1, x_m_1))

griewank(x) ==
    LET part1 == sphere(x)
        part2 == ProdV([i \in 1..Len(x) |-> Cos(Div(x[i], Sqrt(Whole(i))))])
    IN  Sub(Add(One, Div(part1, R(4000, 1))), part2)

\* the return expression of deceptiveillcond
IllcondBody(x) ==
    IF x[1] # Zero
    THEN Max2(Max2(Abs(Arctan(Div(x[2], x[1]))), Sqrt(Add(Sq(x[1]), Sq(x[2])))),
              IF Sign(x[1]) = "p" THEN One ELSE Zero)
    ELSE PInf

\* without the assert the read of x[1] fails on a short vector
IllcondNoAssert(x) ==
    IF Len(x) < 2 THEN {Raise("IndexError")} ELSE {IllcondBody(x)}

deceptiveillcond(x) ==
    IF Len(x) < 2 THEN {Raise(InvalidDimension)} ELSE {IllcondBody(x)}

\* the outcomes of `v > c` for an exact c: decided on exact values only
Greater(v, c) ==
    IF IsRat(v) THEN {Less(c, v)}
    ELSE IF Sign(v) = "n" /\ c.n >= 0 THEN {FALSE}
    ELSE {TRUE, FALSE}

\* int(v) of a finite value: truncation toward zero
Trunc(v) ==
    IF IsRat(v) THEN Whole(IF v.n >= 0 THEN v.n \div v.d ELSE -((-v.n) \div v.d))
    ELSE K("fin")

\* np.sqrt(x[0] ** 2 + x[1] ** 2)
Distance(x) == Sqrt(Add(Sq(x[1]), Sq(x[2])))

\* np.arctan(x[0] / x[1]) if x[1] != 0.0 else np.pi / 2.0
Angle(x) == IF x[2] # Zero THEN Arctan(Div(x[1], x[2])) ELSE Div(Pi, R(2, 1))

\* the two returns after the angle test np.abs(np.cos(invdistance) - angle) > 0.1
AngleTest(distance, angle, invdistance) ==
    {IF far THEN One ELSE distance :
        far \in Greater(Abs(Sub(Cos(invdistance), angle)), R(1, 10))}

\* a slip that leaves out the short-circuit distance == 0.0
PathNoShortCircuit(x) ==
    IF Len(x) < 2 THEN {Raise(InvalidDimension)}
    ELSE LET distance == Distance(x)
             invdistance == IF Sign(distance) = "p" THEN Div(One, distance) ELSE Zero
         IN  AngleTest(distance, Angle(x), invdistance)

deceptivepath(x) ==
    IF Len(x) < 2 THEN {Raise(InvalidDimension)}
    ELSE LET distance == Distance(x)
             invdistance == IF Sign(distance) = "p" THEN Div(One, distance) ELSE Zero
         IN  IF distance = Zero THEN {Zero}
             ELSE AngleTest(distance, Angle(x), invdistance)

deceptivemultimodal(x) ==
    IF Len(x) < 2 THEN {Raise(InvalidDimension)}
    ELSE LET distance == Distance(x)
             invdistance ==
                 IF Sign(distance) = "p" THEN Trunc(Div(One, distance)) ELSE Zero
         IN  IF distance = Zero THEN {Zero}
             ELSE AngleTest(distance, Angle(x), invdistance)

hardonemax(y) == Whole(_onemax(Threshold2(y)))
hardjump(y) == Whole(_jump(Threshold2(y)))
hardleadingones(y) == Whole(_leadingones(Threshold2(y)))
hardonemax5(y) == Whole(_onemax(Threshold5(y)))
hardjump5(y) == Whole(_jump(Threshold5(y)))
hardleadingones5(y) == Whole(_leadingones(Threshold5(y)))
onemax(y) ==
    IF Ragged(y, 2) THEN Raise(InvalidDimension) ELSE Whole(_onemax(Softmax(y, 2)))
jump(y) ==
    IF Ragged(y, 2) THEN Raise(InvalidDimension) ELSE Whole(_jump(Softmax(y, 2)))
leadingones(y) ==
    IF Ragged(y, 2) THEN Raise(InvalidDimension) ELSE Whole(_leadingones(Softmax(y, 2)))
onemax5(y) ==
    IF Ragged(y, 5) THEN Raise(InvalidDimension) ELSE Whole(_onemax(Softmax(y, 5)))
jump5(y) ==
    IF Ragged(y, 5) THEN Raise(InvalidDimension) ELSE Whole(_jump(Softmax(y, 5)))
leadingones5(y) ==
    IF Ragged(y, 5) THEN Raise(InvalidDimension) ELSE Whole(_leadingones(Softmax(y, 5)))

\* value ** e for a Python float value # 0 and an int e < 0
PowNeg(v, e) ==
    IF IsRat(v) THEN Q(IntPow(v.d, -e), IntPow(v.n, -e))
    ELSE IF Sign(v) = "p" THEN K("pos")
    ELSE K("fin")

\* float(1 + np.mean(np.tanh(y))): exact when every tanh is, and otherwise > 0,
\* some tanh(y[i]) being > -1
GenzBase(y) ==
    LET t == [i \in 1..Len(y) |-> Tanh(y[i])]
    IN  IF \A i \in 1..Len(y) : IsRat(t[i])
        THEN Add(One, Div(SumV(t), Whole(Len(y))))
        ELSE K("pos")

genzcornerpeak(y) ==
    LET value == GenzBase(y)
    IN  IF value = Zero THEN PInf ELSE PowNeg(value, -Len(y) - 1)

minusgenzcornerpeak(y) == Neg(genzcornerpeak(y))

genzgaussianpeakintegral(x) == Exp(Div(Neg(sphere(x)), R(4, 1)))
minusgenzgaussianpeakintegral(x) == Neg(genzgaussianpeakintegral(x))

slope(x) == SumV(x)
linear(x) == Tanh(x[1])

\* the registered callables the model evaluates (lunacek and st0..st100 are not)
Modelled ==
    {"DelayedSphere", "sphere", "sphere1", "sphere2", "sphere4", "maxdeceptive",
     "sumdeceptive", "altcigar", "cigar", "altellipsoid", "ellipsoid", "rastrigin",
     "hm", "rosenbrock", "griewank", "deceptiveillcond", "deceptivepath",
     "deceptivemultimodal", "hardonemax", "hardjump", "hardleadingones",
     "hardonemax5", "hardjump5", "hardleadingones5", "onemax", "jump", "leadingones",
     "onemax5", "jump5", "leadingones5", "genzcornerpeak", "minusgenzcornerpeak",
     "genzgaussianpeakintegral", "minusgenzgaussianpeakintegral", "slope", "linear"}

\* the outcomes of callable(x), the callable named as lookup returns it
Apply(name, x) ==
    CASE name = "DelayedSphere" -> {DelayedSphere(x)}
      [] name = "sphere" -> {sphere(x)}
      [] name = "sphere1" -> {sphere1(x)}
      [] name = "sphere2" -> {sphere2(x)}
      [] name = "sphere4" -> {sphere4(x)}
      [] name = "maxdeceptive" -> {maxdeceptive(x)}
      [] name = "sumdeceptive" -> {sumdeceptive(x)}
      [] name = "altcigar" -> {altcigar(x)}
      [] name = "cigar" -> {cigar(x)}
      [] name = "altellipsoid" -> {altellipsoid(x)}
      [] name = "ellipsoid" -> {ellipsoid(x)}
      [] name = "rastrigin" -> {rastrigin(x)}
      [] name = "hm" -> {hm(x)}
      [] name = "rosenbrock" -> {rosenbrock(x)}
      [] name = "griewank" -> {griewank(x)}
      [] name = "deceptiveillcond" -> deceptiveillcond(x)
      [] name = "deceptivepath" -> deceptivepath(x)
      [] name = "deceptivemultimodal" -> deceptivemultimodal(x)
      [] name = "hardonemax" -> {hardonemax(x)}
      [] name = "hardjump" -> {hardjump(x)}
      [] name = "hardleadingones" -> {hardleadingones(x)}
      [] name = "hardonemax5" -> {hardonemax5(x)}
      [] name = "hardjump5" -> {hardjump5(x)}
      [] name = "hardleadingones5" -> {hardleadingones5(x)}
      [] name = "onemax" -> {onemax(x)}
      [] name = "jump" -> {jump(x)}
      [] name = "leadingones" -> {leadingones(x)}
      [] name = "onemax5" -> {onemax5(x)}
      [] name = "jump5" -> {jump5(x)}
      [] name = "leadingones5" -> {leadingones5(x)}
      [] name = "genzcornerpeak" -> {genzcornerpeak(x)}
      [] name = "minusgenzcornerpeak" -> {minusgenzcornerpeak(x)}
      [] name = "genzgaussianpeakintegral" -> {genzgaussianpeakintegral(x)}
      [] name = "minusgenzgaussianpeakintegral" -> {minusgenzgaussianpeakintegral(x)}
      [] name = "slope" -> {slope(x)}
      [] name = "linear" -> {linear(x)}

\* the functions that check the length themselves take any vector, the others a
\* vector of length >= 1
TwoDim == {"deceptiveillcond", "deceptivepath", "deceptivemultimodal"}

\* coordinates of the real vectors: 0, units, and a point where tanh saturates
Coords == {R(-20, 1), R(-1, 1), Zero, One, R(2, 1)}

RealVectors(name) ==
    {x \in Vectors(Coords, MaxDim) : Len(x) >= 1 \/ name \in TwoDim}

\* ------------------------------------------------------------------ actions
\* a call in progress: x is its real vector or code its integer-coded vector
NoCall ==
    [op |-> "none", name |-> "", x |-> <<>>, code |-> <<>>, kwargs |-> {},
     value |-> Zero, out |-> Zero]

Init ==
    /\ registry = <<>>
    /\ pc = 1
    /\ call = NoCall
    /\ errSeen = FALSE

\* one registration statement of the module body (import time); a name already
\* taken fails the import with DuplicateName
Register ==
    /\ pc <= NReg
    /\ Registrations[pc].name \notin Names(registry)
    /\ registry' = RegistryAdd(registry, Registrations[pc])
    /\ pc' = pc + 1
    /\ UNCHANGED <<call, errSeen>>

\* the module is imported and no call is in progress
Idle == pc > NReg /\ call = NoCall

IntVectors == Vectors({0, 1}, MaxBits) \cup Vectors(0..4, MaxCat)

Helper(op, x, out) ==
    [op |-> op, name |-> "", x |-> <<>>, code |-> x, kwargs |-> {}, value |-> Zero,
     out |-> Whole(out)]

CallOnemax ==
    /\ Idle
    /\ \E x \in IntVectors : call' = Helper("_onemax", x, _onemax(x))
    /\ UNCHANGED <<registry, pc, errSeen>>

CallLeadingones ==
    /\ Idle
    /\ \E x \in IntVectors : call' = Helper("_leadingones", x, _leadingones(x))
    /\ UNCHANGED <<registry, pc, errSeen>>

CallJump ==
    /\ Idle
    /\ \E x \in IntVectors : call' = Helper("_jump", x, _jump(x))
    /\ UNCHANGED <<registry, pc, errSeen>>

\* lookup(name) and then callable(x)
Evaluate ==
    /\ Idle
    /\ \E name \in Names(registry) \cap Modelled :
       \E x \in RealVectors(name) :
       \E out \in Apply(lookup(registry, name).callable, x) :
         call' = [op |-> "evaluate", name |-> name, x |-> x, code |-> <<>>,
                  kwargs |-> {}, value |-> Zero, out |-> out]
    /\ UNCHANGED <<registry, pc, errSeen>>

\* coordinates of the vectors whose delay is asked for
DelayCoords == {R(-2, 1), Zero, R(1, 1000), One}
Kwargs == {{}, {"budget"}}

\* DelayedSphere().get_postponing_delay((x,), kwargs, value); value is the result
\* of the call on x or any other score
GetDelay ==
    /\ Idle
    /\ \E x \in Vectors(DelayCoords, MaxDim) \ {<<>>} :
       \E kwargs \in Kwargs :
       \E value \in {DelayedSphere(x), One, PInf} :
         call' = [op |-> "get_postponing_delay", name |-> "DelayedSphere", x |-> x,
                  code |-> <<>>, kwargs |-> kwargs, value |-> value,
                  out |-> get_postponing_delay(<<x>>, kwargs, value)]
    /\ UNCHANGED <<registry, pc, errSeen>>

\* the call returns or raises to its caller
Return ==
    /\ call # NoCall
    /\ call' = NoCall
    /\ errSeen' = (errSeen \/ IsError(call.out))
    /\ UNCHANGED <<registry, pc>>

Next ==
    \/ Register
    \/ CallOnemax
    \/ CallLeadingones
    \/ CallJump
    \/ Evaluate
    \/ GetDelay
    \/ Return

Spec == Init /\ [][Next]_vars

\* ------------------------------------------------------------------- claims
IsEval(name) == call.op = "evaluate" /\ call.name = name
AllOnes(x) == \A i \in 1..Len(x) : x[i] = 1
Ones(x) == Cardinality({i \in 1..Len(x) : x[i] = 1})

\* shortest vector a registered callable accepts
MinLen(name) ==
    IF name \in TwoDim \cup {"onemax", "jump", "leadingones"} THEN 2
    ELSE IF name \in {"onemax5", "jump5", "leadingones5"} THEN 5
    ELSE 1

\* C1: evaluating a registered function on a vector of its minimum valid length,
\* zero coordinates included, never raises and never yields NaN.
C1_NoNaNNoRaise ==
    (call.op = "evaluate" /\ Len(call.x) = MinLen(call.name))
        => (call.out.k # "nan" /\ ~IsError(call.out))

\* C2 as stated: at [0,0] deceptiveillcond, deceptivepath and deceptivemultimodal
\* all return 0, and deceptiveillcond returns +infinity when x[0] = 0 and x[1] # 0.
C2_ZeroAtOrigin ==
    /\ (call.op = "evaluate" /\ call.name \in TwoDim /\ call.x = <<Zero, Zero>>)
          => call.out = Zero
    /\ (IsEval("deceptiveillcond") /\ Len(call.x) >= 2
          /\ call.x[1] = Zero /\ call.x[2] # Zero) => call.out = PInf

\* C2 amended: deceptivepath and deceptivemultimodal return 0 when x[0] = x[1] = 0,
\* and deceptiveillcond returns +infinity whenever x[0] = 0, the input [0,0] included.
C2_Amended ==
    /\ (call.op = "evaluate" /\ call.name \in {"deceptivepath", "deceptivemultimodal"}
          /\ Len(call.x) >= 2 /\ call.x[1] = Zero /\ call.x[2] = Zero)
          => call.out = Zero
    /\ (IsEval("deceptiveillcond") /\ Len(call.x) >= 2 /\ call.x[1] = Zero)
          => call.out = PInf

C2_Witness ==
    IsEval("deceptiveillcond") /\ call.x = <<Zero, Zero>> /\ call.out = PInf

\* number of leading coordinates equal to 1
LeadingOnes(x) == Cardinality({i \in 1..Len(x) : \A j \in 1..i : x[j] = 1})

C4_LenMinusNonOnes ==
    call.op = "_onemax" =>
        call.out = Whole(Len(call.code) - Cardinality({i \in 1..Len(call.code) : call.code[i] # 1}))

\* C4 amended: _onemax(x) is len(x) minus the count of coordinates equal to
\* category 1, that is the count of coordinates not equal to 1, for either arity.
C4_Amended ==
    call.op = "_onemax" =>
        call.out = Whole(Cardinality({i \in 1..Len(call.code) : call.code[i] # 1}))

C4_Witness ==
    call.op = "_onemax" /\ call.code = <<1, 4, 0>> /\ call.out = Whole(2)

\* |1/v|/1000 of an exact v # 0, and 0 at v = 0
DelayLaw(v) == IF v.n = 0 THEN Zero ELSE Q(v.d, 1000 * AbsInt(v.n))

\* C5: the reported delay is |1/x[0]|/1000 when x[0] # 0 and 0 when x[0] = 0,
\* so it is never negative and is decided by x[0] alone.
C5_DelayLaw ==
    call.op = "get_postponing_delay" =>
        /\ call.out = DelayLaw(call.x[1])
        /\ IsRat(call.out) /\ call.out.n >= 0

C5_Witness ==
    /\ call.op = "get_postponing_delay"
    /\ call.x = <<R(1, 1000), Zero>> /\ call.kwargs # {} /\ call.value = PInf
    /\ call.out = One

\* sum of the squares of the integer coordinates i..j of x
RECURSIVE SquareSum(_, _, _)
SquareSum(x, i, j) == IF i > j THEN 0 ELSE x[i].n * x[i].n + SquareSum(x, i + 1, j)

\* C6 as stated: cigar(x) = 10^6 * x[0]^2 + sum of x[i]^2 for i >= 1, and
\* altcigar(x) = cigar(reverse(x)), for len(x) >= 2.
C6_FirstAxisWeighted ==
    /\ (IsEval("cigar") /\ Len(call.x) >= 2) =>
          call.out = Whole(1000000 * SquareSum(call.x, 1, 1)
                           + SquareSum(call.x, 2, Len(call.x)))
    /\ (IsEval("altcigar") /\ Len(call.x) >= 2) => call.out = cigar(Reverse(call.x))

\* C6 amended: cigar(x) = x[0]^2 + 10^6 * sum of x[i]^2 for i >= 1, and
\* altcigar(x) = cigar(reverse(x)), for len(x) >= 2.
C6_Amended ==
    /\ (IsEval("cigar") /\ Len(call.x) >= 2) =>
          call.out = Whole(SquareSum(call.x, 1, 1)
                           + 1000000 * SquareSum(call.x, 2, Len(call.x)))
    /\ (IsEval("altcigar") /\ Len(call.x) >= 2) => call.out = cigar(Reverse(call.x))

C6_Witness ==
    IsEval("altcigar") /\ call.x = <<One, R(2, 1)>> /\ call.out = Whole(1000004)

\* the functions that apply their own discretization
Discretizing ==
    {"hardonemax", "hardjump", "hardleadingones", "hardonemax5", "hardjump5",
     "hardleadingones5", "onemax", "jump", "leadingones", "onemax5", "jump5",
     "leadingones5"}

\* the functions the module registers with the plain register call
PlainNames ==
    {"DelayedSphere", "sphere", "sphere1", "sphere2", "sphere4", "maxdeceptive",
     "sumdeceptive", "altcigar", "cigar", "altellipsoid", "ellipsoid", "rastrigin",
     "hm", "rosenbrock", "griewank", "deceptiveillcond", "deceptivepath",
     "deceptivemultimodal", "lunacek", "genzgaussianpeakintegral",
     "minusgenzgaussianpeakintegral", "slope", "linear", "st0", "st1", "st10", "st100"}

C8_NeverMinusInfinity ==
    call.op = "evaluate" => call.out.k # "ninf"

\* C9: deceptiveillcond, deceptivepath and deceptivemultimodal fail with
\* InvalidDimension, and with no other error, exactly on vectors shorter than 2;
\* a valid call after a failed one is answered as usual.
C9_InvalidDimension ==
    (call.op = "evaluate" /\ call.name \in TwoDim) =>
        /\ Len(call.x) < 2 => call.out = Raise(InvalidDimension)
        /\ Len(call.x) >= 2 => ~IsError(call.out)

C9_Witness ==
    /\ errSeen
    /\ IsEval("deceptiveillcond") /\ call.x = <<One, Zero>> /\ call.out = One

\* the score of a vector of length n with o ones, as C10 gives it
JumpLaw(n, o) ==
    LET m == n \div 4
    IN  IF o = n \/ o <= n - m THEN n - m - o ELSE o

\* C10: _jump(x) = n-m-o when o = n or o <= n-m and o when n-m < o < n (m = n div 4,
\* o the number of 1s); so _jump(x) >= -m with equality exactly at the all-ones
\* vector, and a vector in the gap scores worse than every vector of its length
\* with o <= n-m.
C10_Jump ==
    call.op = "_jump" =>
        LET n == Len(call.code)
            m == n \div 4
            o == Ones(call.code)
        IN  /\ call.out = Whole(JumpLaw(n, o))
            /\ call.out.n >= -m
            /\ (call.out.n = -m) <=> AllOnes(call.code)
            /\ (n - m < o /\ o < n) =>
                  \A y \in IntVectors :
                      (Len(y) = n /\ Ones(y) <= n - m) => _jump(y) < call.out.n

C10_Witness ==
    /\ call.op = "_jump"
    /\ call.code = <<1, 1, 1, 0, 1, 1, 1, 1>>
    /\ call.out = Whole(7)

====
